---- MODULE Spec2Model ----
(***************************************************************************)
(* Model of MathML_EPS.py: a batch driver that extracts <math> blocks from *)
(* an XML document, pastes each into MathType through a UI control         *)
(* channel, saves it as Eqn{n}.eps and, when a block fails, writes         *)
(* Eqn{n}_failed.eps instead.  The program is single-threaded; every call  *)
(* into the UI library either returns or raises, and the model draws that  *)
(* outcome nondeterministically at each call the source makes.             *)
(***************************************************************************)
EXTENDS Integers, Sequences, FiniteSets

\* ---------------------------------------------------------------- bounds
\* Largest number of <math> blocks in the input document.
MaxUnits == 3
\* Report lines name output files Eqn1.eps .. Eqn{MaxPrefKey}.eps.
MaxPrefKey == 1
\* Largest report given to read_eps_preferences on its own: lines, and
\* characters per line (before the line break).
MaxLines == 2
MaxLineLen == 4
\* Largest number of top-level windows given to dismiss_error_popup on its own.
MaxWindows == 2

VARIABLES
    pc,             \* position of the single control thread
    outDir,         \* eps_output: "absent", "preexisting" or "created"
    mathml_blocks,  \* list returned by extract_mathml_blocks (the blocks' text)
    mathml_txt,     \* mathml.txt as the lines a reader gets, <<>> while not written by this run
    eps_pref_map,   \* dict returned by read_eps_preferences
    eqn_counter,    \* the global counter
    i,              \* enumerate(f, 1) index of the line being processed
    eps_filename,   \* lookup key computed at line 214 (NoName before it)
    pref_called,    \* outcome of apply_preferences for this line ("not_called" if none)
    warned,         \* "No preference found" warning logged for this line
    dismiss_calls,  \* calls of dismiss_error_popup for this line
    exc,            \* exception raised for this line / aborting the run ("none")
    written,        \* artifact writes in order: [unit |-> line index, name |-> filename]
    result,         \* per finished line: "ok" or the exception that failed it
    acquisitions,   \* calls of connect_or_start_mathtype that returned an app
    dismissed,      \* value returned by dismiss_error_popup (line 229), None outside the handler
    warnings,       \* logging.warning records of apply_preferences / close_current_window for this line
    processed,      \* the blocks for which "Processing equation" was logged, in order
    \* state of the two helper functions checked on their own
    report,         \* read_eps_preferences: the lines of the report file
    mapping,        \* read_eps_preferences: the dict being built
    nread,          \* read_eps_preferences: lines consumed by the for loop
    all_windows,    \* dismiss_error_popup: app.windows()
    widx,           \* dismiss_error_popup: position of the for loop
    attempted,      \* dismiss_error_popup: windows on which set_focus was called
    esc_sent,       \* dismiss_error_popup: windows that had focus when {ESC} was sent
    ret             \* dismiss_error_popup: the value returned ("running" before)

\* Variables of the helper-function specifications; the run leaves them alone.
auxVars == <<report, mapping, nread, all_windows, widx, attempted, esc_sent, ret>>

vars == <<pc, outDir, mathml_blocks, mathml_txt, eps_pref_map, eqn_counter, i,
          eps_filename, pref_called, warned, dismiss_calls, exc, written, result,
          acquisitions, dismissed, warnings, processed, auxVars>>

\* ------------------------------------------------------------- filenames
\* f"Eqn{eqn_counter}.eps"
EpsName(n) == <<"Eqn", n, ".eps">>
\* f"Eqn{eqn_counter}_failed.eps"
FailedEpsName(n) == <<"Eqn", n, "_failed.eps">>
NoName == <<>>

\* ----------------------------------------------------- preference mapping
None == "<None>"
PrefNames == {"", "Pref"}
PrefKeys == {EpsName(n) : n \in 1..MaxPrefKey}
\* The dicts read_eps_preferences can return for reports over PrefKeys.
PrefMaps == UNION {[D -> PrefNames] : D \in SUBSET PrefKeys}
EmptyMap == [k \in {} |-> ""]

\* A dict lookup that falls back to a default preference.
PrefGet_default(m, k) == IF k \in DOMAIN m THEN m[k] ELSE "Pref"
\* eps_pref_map.get(eps_filename)
PrefGet(m, k) == IF k \in DOMAIN m THEN m[k] ELSE None
\* Python truthiness of the looked-up value (None and "" are falsy).
Truthy(p) == p # None /\ p # ""

\* ------------------------------------------------------------------ text
\* Text is a sequence of characters; a run of ordinary characters is one token.
NL == "\n"
TAB == "\t"
SP == " "
Whitespace == {NL, TAB, SP}
SeqMin(S) == CHOOSE x \in S : \A y \in S : x <= y
SeqMax(S) == CHOOSE x \in S : \A y \in S : x >= y
\* str.strip(): whitespace removed at both ends only.
Strip(s) ==
    LET keep == {j \in 1..Len(s) : s[j] \notin Whitespace}
    IN  IF keep = {} THEN <<>> ELSE SubSeq(s, SeqMin(keep), SeqMax(keep))
NotNL(c) == c # NL
\* str.replace('\n', '')
RemoveNewlines(s) == SelectSeq(s, NotNL)

\* The document's b-th <math> block: its body holds b-1 line breaks.
BodyChars == <<"a", "b", "c", "d", "e", "f">>
Block(b) ==
    <<"<math>">> \o [j \in 1..(2 * b - 1) |-> IF j % 2 = 1 THEN BodyChars[b] ELSE NL]
                 \o <<"</math>">>

\* A writer that keeps the line breaks of the block.
WriteLine_keepNewlines(block) == Strip(block) \o <<NL>>
\* Line 38: block.strip().replace('\n', '') + '\n'
WriteLine(block) == RemoveNewlines(Strip(block)) \o <<NL>>

\* Lines 36-38: the text written to mathml.txt.
RECURSIVE FileText(_)
FileText(blocks) ==
    IF blocks = <<>> THEN <<>> ELSE WriteLine(Head(blocks)) \o FileText(Tail(blocks))

\* Iterating a text file (line 203): the lines, each with its line break; text
\* after the last line break is a line of its own.
LineBreaks(text) == {j \in 1..Len(text) : text[j] = NL}
LineEnd(text, k) ==
    IF k <= Cardinality(LineBreaks(text))
    THEN CHOOSE e \in LineBreaks(text) : Cardinality({p \in LineBreaks(text) : p <= e}) = k
    ELSE Len(text)
FileLines(text) ==
    [k \in 1..(Cardinality(LineBreaks(text))
                + (IF text # <<>> /\ text[Len(text)] # NL THEN 1 ELSE 0)) |->
        SubSeq(text, (IF k = 1 THEN 0 ELSE LineEnd(text, k - 1)) + 1, LineEnd(text, k))]

\* ------------------------------------------------------------ exceptions
\* Exceptions that escape apply_preferences (set_focus / send_keys, lines 89-90).
PrefRaises == {"pref_focus_raises"}
\* Outcomes of apply_preferences that return normally.
PrefReturns == {"pref_no_window", "pref_menu_raises", "pref_applied"}
\* Exceptions of save_as_eps raised before the counter is advanced (lines 113-121).
SaveRaisesEarly == {"save_no_window", "save_menu_raises", "save_dlg_timeout"}
\* Exceptions of save_as_eps raised after the counter is advanced (lines 127-129).
SaveRaisesLate == {"save_edit_raises", "save_click_raises"}

\* The helper-function variables while no helper specification is running.
AuxIdle ==
    /\ report = <<>>
    /\ mapping = EmptyMap
    /\ nread = 0
    /\ all_windows = <<>>
    /\ widx = 0
    /\ attempted = {}
    /\ esc_sent = {}
    /\ ret = "running"

Init ==
    /\ pc = "makedirs"
    /\ outDir \in {"absent", "preexisting"}
    /\ mathml_blocks = <<>>
    /\ mathml_txt = <<>>
    /\ eps_pref_map = EmptyMap
    /\ eqn_counter = 1
    /\ i = 0
    /\ eps_filename = NoName
    /\ pref_called = "not_called"
    /\ warned = FALSE
    /\ dismiss_calls = 0
    /\ exc = "none"
    /\ written = <<>>
    /\ result = <<>>
    /\ acquisitions = 0
    /\ dismissed = None
    /\ warnings = {}
    /\ processed = <<>>
    /\ AuxIdle

unitVars == <<eps_filename, pref_called, warned, dismiss_calls>>

\* ------------------------------------------------------------- start-up
\* Lines 14-16: the output directory is created at import time.
MakeOutputDir ==
    /\ pc = "makedirs"
    /\ UNCHANGED <<auxVars, acquisitions, dismissed, warnings, processed>>
    /\ outDir' = IF outDir = "absent" THEN "created" ELSE outDir
    /\ pc' = "import"
    /\ UNCHANGED <<mathml_blocks, mathml_txt, eps_pref_map, eqn_counter, i,
                   unitVars, exc, written, result>>

\* Lines 250-254
ImportPyperclip ==
    /\ pc = "import"
    /\ UNCHANGED <<auxVars, acquisitions, dismissed, warnings, processed>>
    /\ \E installed \in BOOLEAN : pc' = IF installed THEN "check_xml" ELSE "sys_exit"
    /\ UNCHANGED <<outDir, mathml_blocks, mathml_txt, eps_pref_map, eqn_counter, i,
                   unitVars, exc, written, result>>

\* Lines 256-258
CheckXmlFile ==
    /\ pc = "check_xml"
    /\ UNCHANGED <<auxVars, acquisitions, dismissed, warnings, processed>>
    /\ \E exists \in BOOLEAN : pc' = IF exists THEN "check_exe" ELSE "sys_exit"
    /\ UNCHANGED <<outDir, mathml_blocks, mathml_txt, eps_pref_map, eqn_counter, i,
                   unitVars, exc, written, result>>

\* Lines 260-262
CheckMathTypePath ==
    /\ pc = "check_exe"
    /\ UNCHANGED <<auxVars, acquisitions, dismissed, warnings, processed>>
    /\ \E exists \in BOOLEAN : pc' = IF exists THEN "extract" ELSE "sys_exit"
    /\ UNCHANGED <<outDir, mathml_blocks, mathml_txt, eps_pref_map, eqn_counter, i,
                   unitVars, exc, written, result>>

\* Lines 264-267 (extract_mathml_blocks, lines 28-33): k blocks in document order.
ExtractBlocks ==
    /\ pc = "extract"
    /\ UNCHANGED <<auxVars, acquisitions, dismissed, warnings, processed>>
    /\ \E k \in 0..MaxUnits :
        /\ mathml_blocks' = [b \in 1..k |-> Block(b)]
        /\ pc' = IF k = 0 THEN "sys_exit" ELSE "write_txt"
    /\ UNCHANGED <<outDir, mathml_txt, eps_pref_map, eqn_counter, i,
                   unitVars, exc, written, result>>

\* Line 271 (write_mathml_to_file, lines 35-39); the file is kept as the lines
\* that iterating it (line 203) yields.
WriteMathmlToFile ==
    /\ pc = "write_txt"
    /\ UNCHANGED <<auxVars, acquisitions, dismissed, warnings, processed>>
    /\ mathml_txt' = FileLines(FileText(mathml_blocks))
    /\ pc' = "read_prefs"
    /\ UNCHANGED <<outDir, mathml_blocks, eps_pref_map, eqn_counter, i,
                   unitVars, exc, written, result>>

\* Line 272 (read_eps_preferences, lines 41-55): a missing report gives {}.
ReadEpsPreferences ==
    /\ pc = "read_prefs"
    /\ UNCHANGED <<auxVars, acquisitions, dismissed, warnings, processed>>
    /\ \E exists \in BOOLEAN, m \in PrefMaps :
        eps_pref_map' = IF exists THEN m ELSE EmptyMap
    /\ pc' = "connect"
    /\ UNCHANGED <<outDir, mathml_blocks, mathml_txt, eqn_counter, i,
                   unitVars, exc, written, result>>

\* Line 197 (connect_or_start_mathtype, lines 57-65): connect, else start;
\* an exception of start() is not caught anywhere.
ConnectOrStartMathType ==
    /\ pc = "connect"
    /\ UNCHANGED <<auxVars, dismissed, warnings, processed>>
    /\ \E o \in {"connected", "started", "start_raises"} :
        IF o = "start_raises"
        THEN pc' = "unhandled" /\ exc' = "start_raises" /\ UNCHANGED acquisitions
        ELSE pc' = "main_win" /\ acquisitions' = acquisitions + 1 /\ UNCHANGED exc
    /\ UNCHANGED <<outDir, mathml_blocks, mathml_txt, eps_pref_map, eqn_counter, i,
                   unitVars, written, result>>

\* Lines 198-199: get_main_window(app) may return None (line 75);
\* main_win.set_focus() then raises AttributeError outside any try.
FocusMainWindow ==
    /\ pc = "main_win"
    /\ UNCHANGED <<auxVars, acquisitions, dismissed, warnings, processed>>
    /\ \E o \in {"found", "none", "focus_raises"} :
        IF o = "found"
        THEN pc' = "loop" /\ UNCHANGED exc
        ELSE pc' = "unhandled"
             /\ exc' = IF o = "none" THEN "main_win_none" ELSE "focus_raises"
    /\ UNCHANGED <<outDir, mathml_blocks, mathml_txt, eps_pref_map, eqn_counter, i,
                   unitVars, written, result>>

\* ------------------------------------------------------------- the loop
\* Lines 203-208 and 245: next line of mathml.txt, or the end of the run.
\* Blank lines are skipped; write_mathml_to_file never writes one.
NextLine ==
    /\ pc = "loop"
    /\ UNCHANGED <<auxVars, acquisitions, dismissed>>
    /\ IF i < Len(mathml_txt)
       THEN /\ i' = i + 1
            /\ IF Strip(mathml_txt[i + 1]) = <<>>
               THEN pc' = "loop" /\ UNCHANGED processed
               ELSE /\ pc' = "paste"
                    /\ processed' = Append(processed, Strip(mathml_txt[i + 1]))
            /\ eps_filename' = NoName
            /\ pref_called' = "not_called"
            /\ warned' = FALSE
            /\ dismiss_calls' = 0
            /\ exc' = "none"
            /\ warnings' = {}
       ELSE /\ pc' = "done"
            /\ UNCHANGED <<i, unitVars, exc, warnings, processed>>
    /\ UNCHANGED <<outDir, mathml_blocks, mathml_txt, eps_pref_map, eqn_counter,
                   written, result>>

\* Lines 211-212: pyperclip.copy and paste_mathml_to_mathtype (lines 77-81).
PasteMathml ==
    /\ pc = "paste"
    /\ UNCHANGED <<auxVars, acquisitions, dismissed, warnings, processed>>
    /\ \E ok \in BOOLEAN :
        IF ok THEN pc' = "lookup" /\ UNCHANGED exc
        ELSE pc' = "except" /\ exc' = "paste_raises"
    /\ UNCHANGED <<outDir, mathml_blocks, mathml_txt, eps_pref_map, eqn_counter, i,
                   unitVars, written, result>>

\* A lookup keyed by the number of the line instead of the counter.
LookupPreference_byLine ==
    /\ pc = "lookup"
    /\ UNCHANGED <<auxVars, acquisitions, dismissed, warnings, processed>>
    /\ eps_filename' = EpsName(i)
    /\ IF Truthy(PrefGet(eps_pref_map, EpsName(i)))
       THEN pc' = "apply_pref" /\ UNCHANGED warned
       ELSE pc' = "save" /\ warned' = TRUE
    /\ UNCHANGED <<outDir, mathml_blocks, mathml_txt, eps_pref_map, eqn_counter, i,
                   pref_called, dismiss_calls, exc, written, result>>

\* Lines 214-220
LookupPreference ==
    /\ pc = "lookup"
    /\ UNCHANGED <<auxVars, acquisitions, dismissed, warnings, processed>>
    /\ eps_filename' = EpsName(eqn_counter)
    /\ IF Truthy(PrefGet(eps_pref_map, EpsName(eqn_counter)))
       THEN pc' = "apply_pref" /\ UNCHANGED warned
       ELSE pc' = "save" /\ warned' = TRUE
    /\ UNCHANGED <<outDir, mathml_blocks, mathml_txt, eps_pref_map, eqn_counter, i,
                   pref_called, dismiss_calls, exc, written, result>>

\* Outcomes of apply_preferences that log a warning (lines 86 and 108).
PrefWarns == {"pref_no_window", "pref_menu_raises"}

\* apply_preferences logging a failing menu_select and raising it again.
ApplyPreferences_menuPropagates ==
    /\ pc = "apply_pref"
    /\ UNCHANGED <<auxVars, acquisitions, dismissed, processed>>
    /\ \E o \in PrefReturns \cup PrefRaises :
        /\ pref_called' = o
        /\ warnings' = IF o \in PrefWarns THEN warnings \cup {o} ELSE warnings
        /\ IF o \in PrefRaises \cup {"pref_menu_raises"}
           THEN pc' = "except" /\ exc' = o
           ELSE pc' = "save" /\ UNCHANGED exc
    /\ UNCHANGED <<outDir, mathml_blocks, mathml_txt, eps_pref_map, eqn_counter, i,
                   eps_filename, warned, dismiss_calls, written, result>>

\* Line 218 (apply_preferences, lines 83-108): a missing window (85-87) and a
\* failing menu_select (107-108) are logged and the function returns;
\* set_focus / send_keys (89-90) are outside the try and propagate.
ApplyPreferences ==
    /\ pc = "apply_pref"
    /\ UNCHANGED <<auxVars, acquisitions, dismissed, processed>>
    /\ \E o \in PrefReturns \cup PrefRaises :
        /\ pref_called' = o
        /\ warnings' = IF o \in PrefWarns THEN warnings \cup {o} ELSE warnings
        /\ IF o \in PrefRaises
           THEN pc' = "except" /\ exc' = o
           ELSE pc' = "save" /\ UNCHANGED exc
    /\ UNCHANGED <<outDir, mathml_blocks, mathml_txt, eps_pref_map, eqn_counter, i,
                   eps_filename, warned, dismiss_calls, written, result>>

\* save_as_eps with the counter advanced before the dialog is waited for.
SaveAdvancesCounter_early(o) == o \in SaveRaisesLate \cup {"saved", "save_dlg_timeout"}
\* Whether save_as_eps reached line 125 (eqn_counter += 1) on outcome o.
SaveAdvancesCounter(o) == o \in SaveRaisesLate \cup {"saved"}

\* Line 222 (save_as_eps, lines 110-140).
SaveAsEps ==
    /\ pc = "save"
    /\ UNCHANGED <<auxVars, acquisitions, dismissed, warnings, processed>>
    /\ \E o \in SaveRaisesEarly \cup SaveRaisesLate \cup {"saved"} :
        /\ eqn_counter' = IF SaveAdvancesCounter(o) THEN eqn_counter + 1 ELSE eqn_counter
        /\ IF o = "saved"
           THEN /\ written' = Append(written, [unit |-> i, name |-> EpsName(eqn_counter)])
                /\ pc' = "close"
                /\ UNCHANGED exc
           ELSE /\ pc' = "except"
                /\ exc' = o
                /\ UNCHANGED written
    /\ UNCHANGED <<outDir, mathml_blocks, mathml_txt, eps_pref_map, i,
                   unitVars, result>>

\* close_current_window without its try/except: a failure reaches the handler.
CloseCurrentWindow_propagates ==
    /\ pc = "close"
    /\ UNCHANGED <<auxVars, acquisitions, dismissed, processed>>
    /\ \E o \in {"closed", "no_window", "raises"} :
        IF o = "raises"
        THEN /\ pc' = "except"
             /\ exc' = "close_raises"
             /\ warnings' = warnings \cup {"close_raises"}
             /\ UNCHANGED result
        ELSE /\ pc' = "loop"
             /\ result' = Append(result, "ok")
             /\ UNCHANGED <<exc, warnings>>
    /\ UNCHANGED <<outDir, mathml_blocks, mathml_txt, eps_pref_map, eqn_counter, i,
                   unitVars, written>>

\* Lines 223 and 243 (close_current_window, lines 142-151): never raises.
CloseCurrentWindow ==
    /\ pc = "close"
    /\ UNCHANGED <<auxVars, acquisitions, dismissed, processed>>
    /\ \E o \in {"closed", "no_window", "raises_caught"} :
        /\ pc' = "loop"
        /\ warnings' = IF o = "raises_caught" THEN warnings \cup {"close_raises"} ELSE warnings
    /\ result' = Append(result, "ok")
    /\ UNCHANGED <<outDir, mathml_blocks, mathml_txt, eps_pref_map, eqn_counter, i,
                   unitVars, exc, written>>

\* A dismissal helper without its own try/except: its failure aborts the run.
DismissErrorPopup_raises ==
    /\ pc = "except"
    /\ UNCHANGED <<auxVars, acquisitions, warnings, processed>>
    /\ dismiss_calls' = dismiss_calls + 1
    /\ \E o \in {"True", "False", "raises"} :
        /\ pc' = IF o = "raises" THEN "unhandled" ELSE "placeholder"
        /\ dismissed' = IF o = "raises" THEN None ELSE o
    /\ UNCHANGED <<outDir, mathml_blocks, mathml_txt, eps_pref_map, eqn_counter, i,
                   eps_filename, pref_called, warned, exc, written, result>>

\* A handler that goes straight to the placeholder.
DismissErrorPopup_skipped ==
    /\ pc = "except"
    /\ UNCHANGED <<auxVars, acquisitions, dismissed, warnings, processed>>
    /\ pc' = "placeholder"
    /\ UNCHANGED <<outDir, mathml_blocks, mathml_txt, eps_pref_map, eqn_counter, i,
                   unitVars, exc, written, result>>

\* A handler that writes the placeholder only when a popup was dismissed.
DismissErrorPopup_onlyIfDismissed ==
    /\ pc = "except"
    /\ UNCHANGED <<auxVars, acquisitions, warnings, processed>>
    /\ dismiss_calls' = dismiss_calls + 1
    /\ \E r \in {"True", "False"} :
        /\ dismissed' = r
        /\ pc' = IF r = "True" THEN "placeholder" ELSE "loop"
    /\ UNCHANGED <<outDir, mathml_blocks, mathml_txt, eps_pref_map, eqn_counter, i,
                   eps_filename, pref_called, warned, exc, written, result>>

\* Lines 225-233 (dismiss_error_popup, lines 157-188): returns True or False.
DismissErrorPopup ==
    /\ pc = "except"
    /\ UNCHANGED <<auxVars, acquisitions, warnings, processed>>
    /\ dismiss_calls' = dismiss_calls + 1
    /\ \E r \in {"True", "False"} : dismissed' = r
    /\ pc' = "placeholder"
    /\ UNCHANGED <<outDir, mathml_blocks, mathml_txt, eps_pref_map, eqn_counter, i,
                   eps_filename, pref_called, warned, exc, written, result>>

\* A handler that advances the counter without writing the placeholder.
WriteFailedEps_nofile ==
    /\ pc = "placeholder"
    /\ UNCHANGED <<auxVars, acquisitions, warnings, processed>>
    /\ dismissed' = None
    /\ eqn_counter' = eqn_counter + 1
    /\ result' = Append(result, exc)
    /\ pc' = "loop"
    /\ UNCHANGED <<outDir, mathml_blocks, mathml_txt, eps_pref_map, i,
                   unitVars, exc, written>>

\* A handler that connects to the application again after a failed line.
WriteFailedEps_reacquire ==
    /\ pc = "placeholder"
    /\ UNCHANGED <<auxVars, warnings, processed>>
    /\ acquisitions' = acquisitions + 1
    /\ dismissed' = None
    /\ written' = Append(written, [unit |-> i, name |-> FailedEpsName(eqn_counter)])
    /\ eqn_counter' = eqn_counter + 1
    /\ result' = Append(result, exc)
    /\ pc' = "loop"
    /\ UNCHANGED <<outDir, mathml_blocks, mathml_txt, eps_pref_map, i,
                   unitVars, exc>>

\* Lines 235-243
WriteFailedEps ==
    /\ pc = "placeholder"
    /\ UNCHANGED <<auxVars, acquisitions, warnings, processed>>
    /\ dismissed' = None
    /\ written' = Append(written, [unit |-> i, name |-> FailedEpsName(eqn_counter)])
    /\ eqn_counter' = eqn_counter + 1
    /\ result' = Append(result, exc)
    /\ pc' = "loop"
    /\ UNCHANGED <<outDir, mathml_blocks, mathml_txt, eps_pref_map, i,
                   unitVars, exc>>

Next ==
    \/ MakeOutputDir
    \/ ImportPyperclip
    \/ CheckXmlFile
    \/ CheckMathTypePath
    \/ ExtractBlocks
    \/ WriteMathmlToFile
    \/ ReadEpsPreferences
    \/ ConnectOrStartMathType
    \/ FocusMainWindow
    \/ NextLine
    \/ PasteMathml
    \/ LookupPreference
    \/ ApplyPreferences
    \/ SaveAsEps
    \/ CloseCurrentWindow
    \/ DismissErrorPopup
    \/ WriteFailedEps

Spec == Init /\ [][Next]_vars

\* The control thread is never blocked for ever: every library wait in the
\* source has a timeout, so an enabled step is eventually taken.
FairSpec == Spec /\ WF_vars(Next)

\* ------------------------------------------ read_eps_preferences alone
\* The run's variables while a helper function is checked on its own.
RunIdle ==
    /\ outDir = "absent"
    /\ mathml_blocks = <<>>
    /\ mathml_txt = <<>>
    /\ eps_pref_map = EmptyMap
    /\ eqn_counter = 1
    /\ i = 0
    /\ eps_filename = NoName
    /\ pref_called = "not_called"
    /\ warned = FALSE
    /\ dismiss_calls = 0
    /\ exc = "none"
    /\ written = <<>>
    /\ result = <<>>
    /\ acquisitions = 0
    /\ dismissed = None
    /\ warnings = {}
    /\ processed = <<>>
runVars == <<outDir, mathml_blocks, mathml_txt, eps_pref_map, eqn_counter, i,
             eps_filename, pref_called, warned, dismiss_calls, exc, written, result,
             acquisitions, dismissed, warnings, processed>>

\* Characters of a report line: the delimiter and two field texts
\* ("E" an output filename, "P" a preference name).
ReportChars == {TAB, "E", "P"}
SeqsUpTo(S, n) == UNION {[1..m -> S] : m \in 0..n}
\* A report: each line ends with its line break.
ReportLines == {l \o <<NL>> : l \in SeqsUpTo(ReportChars, MaxLineLen)}
Reports == SeqsUpTo(ReportLines, MaxLines)

\* str.split('\t'): the fields between the delimiters, empty ones kept.
RECURSIVE Split(_)
Split(s) ==
    LET tabs == {j \in 1..Len(s) : s[j] = TAB}
    IN  IF tabs = {} THEN <<s>>
        ELSE <<SubSeq(s, 1, SeqMin(tabs) - 1)>> \o Split(SubSeq(s, SeqMin(tabs) + 1, Len(s)))

\* mapping[key] = val
DictSet(m, key, val) == [k \in DOMAIN m \cup {key} |-> IF k = key THEN val ELSE m[k]]

\* Lines 50-54: one iteration of the for loop.
ReadLine(m, line) ==
    LET parts == Split(Strip(line))
    IN  IF Len(parts) >= 2 THEN DictSet(m, Strip(parts[1]), Strip(parts[2])) ELSE m

LoaderInit ==
    /\ pc = "loader_open"
    /\ report \in Reports
    /\ mapping = EmptyMap
    /\ nread = 0
    /\ all_windows = <<>>
    /\ widx = 0
    /\ attempted = {}
    /\ esc_sent = {}
    /\ ret = "running"
    /\ RunIdle

\* Lines 43-48: a missing report file gives the empty dict.
LoaderOpen ==
    /\ pc = "loader_open"
    /\ \E exists \in BOOLEAN : pc' = IF exists THEN "loader_read" ELSE "loader_missing"
    /\ UNCHANGED <<runVars, auxVars>>

\* Lines 49-54
LoaderReadLine ==
    /\ pc = "loader_read"
    /\ nread < Len(report)
    /\ mapping' = ReadLine(mapping, report[nread + 1])
    /\ nread' = nread + 1
    /\ UNCHANGED <<pc, runVars, report, all_windows, widx, attempted, esc_sent, ret>>

\* Line 55
LoaderReturn ==
    /\ pc = "loader_read"
    /\ nread = Len(report)
    /\ pc' = "loader_done"
    /\ UNCHANGED <<runVars, auxVars>>

LoaderNext == LoaderOpen \/ LoaderReadLine \/ LoaderReturn

LoaderSpec == LoaderInit /\ [][LoaderNext]_vars

\* ------------------------------------------- dismiss_error_popup alone
UpperCase == <<"A", "B", "C", "D", "E", "F", "G", "H", "I", "J", "K", "L", "M",
               "N", "O", "P", "Q", "R", "S", "T", "U", "V", "W", "X", "Y", "Z">>
LowerCase == <<"a", "b", "c", "d", "e", "f", "g", "h", "i", "j", "k", "l", "m",
               "n", "o", "p", "q", "r", "s", "t", "u", "v", "w", "x", "y", "z">>
LowerChar(c) ==
    IF \E k \in DOMAIN UpperCase : UpperCase[k] = c
    THEN LowerCase[CHOOSE k \in DOMAIN UpperCase : UpperCase[k] = c]
    ELSE c
\* A title compared as it is written.
Lower_asWritten(s) == s
\* str.lower() (line 162)
Lower(s) == [k \in DOMAIN s |-> LowerChar(s[k])]

\* keyword in lower_title
Contains(s, kw) ==
    \E k \in 1..(Len(s) - Len(kw) + 1) : SubSeq(s, k, k + Len(kw) - 1) = kw

\* Line 164
Keywords == { <<"e", "r", "r", "o", "r">>, <<"m", "a", "t", "h">>,
              <<"w", "a", "r", "n", "i", "n", "g">>, <<"c", "o", "n", "f", "i", "r", "m">>,
              <<"s", "a", "v", "e">>, <<"s", "e", "r", "v", "e", "r">> }
IsPopupTitle(title) == \E kw \in Keywords : Contains(Lower(title), kw)

\* Window titles: "Error", "SAVE AS", "Notes".
Titles == { <<"E", "r", "r", "o", "r">>, <<"S", "A", "V", "E", " ", "A", "S">>,
            <<"N", "o", "t", "e", "s">> }
\* A top-level window: its title and whether window_text(), set_focus() and
\* send_keys("{ESC}") with the window focused return or raise.
Windows == [title : Titles, text : {"ok", "raises"}, focus : {"ok", "raises"},
            keys : {"ok", "raises"}]

DismissInit ==
    /\ pc = "dismiss_call"
    /\ all_windows \in SeqsUpTo(Windows, MaxWindows)
    /\ widx = 0
    /\ attempted = {}
    /\ esc_sent = {}
    /\ ret = "running"
    /\ report = <<>>
    /\ mapping = EmptyMap
    /\ nread = 0
    /\ RunIdle

\* Line 159 inside the try of line 158: a failing app.windows() is caught at
\* lines 186-188.
DismissEnumerate ==
    /\ pc = "dismiss_call"
    /\ \E ok \in BOOLEAN :
        IF ok THEN pc' = "dismiss_loop" /\ UNCHANGED ret
        ELSE pc' = "dismiss_caught" /\ ret' = "False"
    /\ UNCHANGED <<runVars, report, mapping, nread, all_windows, widx, attempted, esc_sent>>

\* Lines 160-182: one iteration of the for loop.
DismissExamine ==
    /\ pc = "dismiss_loop"
    /\ widx < Len(all_windows)
    /\ LET w == all_windows[widx + 1]
       IN  IF w.text = "raises"
           THEN \* window_text() raises: caught at lines 186-188
                /\ pc' = "dismiss_caught"
                /\ ret' = "False"
                /\ UNCHANGED <<widx, attempted, esc_sent>>
           ELSE IF IsPopupTitle(w.title)
           THEN \* lines 165-182; print_control_identifiers may raise (caught, 168-171)
                /\ \E printed \in BOOLEAN : attempted' = attempted \cup {widx + 1}
                /\ IF w.focus = "ok" /\ w.keys = "ok"
                   THEN /\ esc_sent' = esc_sent \cup {widx + 1}
                        /\ ret' = "True"
                        /\ pc' = "dismiss_done"
                        /\ UNCHANGED widx
                   ELSE /\ widx' = widx + 1
                        /\ UNCHANGED <<pc, ret, esc_sent>>
           ELSE /\ widx' = widx + 1
                /\ UNCHANGED <<pc, ret, attempted, esc_sent>>
    /\ UNCHANGED <<runVars, report, mapping, nread, all_windows>>

\* Lines 184-185
DismissNoPopup ==
    /\ pc = "dismiss_loop"
    /\ widx = Len(all_windows)
    /\ pc' = "dismiss_done"
    /\ ret' = "False"
    /\ UNCHANGED <<runVars, report, mapping, nread, all_windows, widx, attempted, esc_sent>>

DismissNext == DismissEnumerate \/ DismissExamine \/ DismissNoPopup

DismissSpec == DismissInit /\ [][DismissNext]_vars

\* ------------------------------------------------------------ properties
K == Len(mathml_blocks)
WrittenNames == {written[j].name : j \in DOMAIN written}
WrittenIndices == {written[j].name[2] : j \in DOMAIN written}
WritesOf(u) == {j \in DOMAIN written : written[j].unit = u}
UnitExceptions == {"paste_raises"} \cup PrefRaises \cup SaveRaisesEarly \cup SaveRaisesLate
\* The line with index i has been dealt with and the next one is not yet begun.
UnitOver == pc \in {"loop", "done"} /\ i >= 1

\* C1 (as claimed): after a complete run over k units the indices n for which
\* Eqn{n}.eps or Eqn{n}_failed.eps was written are exactly 1..k, and no index
\* has both a real and a placeholder artifact, whatever failed and wherever.
C1_IndicesExactly1toK ==
    pc = "done" =>
        /\ WrittenIndices = 1..K
        /\ \A n \in WrittenIndices :
             ~(EpsName(n) \in WrittenNames /\ FailedEpsName(n) \in WrittenNames)

\* C2 (as claimed): the counter starts at 1 and advances exactly once per
\* processed unit: it is i when the i-th unit begins, 1 + (units finished)
\* between units, and k+1 at the end of the run.
C2_CounterOncePerUnit ==
    /\ (pc = "makedirs" => eqn_counter = 1)
    /\ (pc = "paste" => eqn_counter = i)
    /\ (pc = "loop" => eqn_counter = Len(result) + 1)
    /\ (pc = "done" => eqn_counter = K + 1)

\* C3 (as claimed): the n-th processed unit writes the artifact named for
\* index n, Eqn{n}.eps when it succeeds and Eqn{n}_failed.eps when it fails.
C3_NthUnitWritesIndexN ==
    /\ \A j \in DOMAIN written : written[j].name[2] = written[j].unit
    /\ \A u \in 1..Len(result) :
         \E j \in DOMAIN written :
            written[j] = [unit |-> u,
                          name |-> IF result[u] = "ok" THEN EpsName(u)
                                   ELSE FailedEpsName(u)]

\* C4: an exception raised while a unit is processed never leaves the unit:
\* the run is not aborted, the lines are taken one by one in order (the index
\* moves by one, exactly when the attempt of a line begins), a failed line
\* that is not the last is followed by the attempt of the next one, and the
\* run reaches "done" with every line accounted for.
C4_FailureIsolation ==
    /\ [](exc \in UnitExceptions => pc \in {"except", "placeholder", "loop", "done"})
    /\ [][i' = i \/ i' = i + 1]_vars
    /\ [][(pc' = "paste") <=> (i' # i)]_vars
    /\ (pc = "except" /\ i < K) ~> (pc = "paste")
    /\ (pc = "except") ~> (pc = "done" /\ Len(result) = K)

C4_Witness ==
    /\ pc = "done"
    /\ K >= 2
    /\ result[1] \in SaveRaisesLate
    /\ result[2] = "ok"

\* C5: three units, the first and third saved, the second failing because the
\* save dialog does not become visible: the artifacts are Eqn1.eps,
\* Eqn2_failed.eps and Eqn3.eps and the counter ends at 4.
C5_ScenarioSecondSaveTimesOut ==
    (pc = "done" /\ result = <<"ok", "save_dlg_timeout", "ok">>) =>
        /\ WrittenNames = {EpsName(1), FailedEpsName(2), EpsName(3)}
        /\ Len(written) = 3
        /\ eqn_counter = 4

C5_Witness == pc = "done" /\ result = <<"ok", "save_dlg_timeout", "ok">>

\* C6: every finished unit has written exactly one artifact, the unit in
\* progress at most one, no filename is written twice, and after k units
\* exactly k distinct files have been written.
C6_OneArtifactPerUnit ==
    /\ \A u \in 1..Len(result) : Cardinality(WritesOf(u)) = 1
    /\ \A j \in DOMAIN written : written[j].unit \in 1..i
    /\ Len(written) <= Len(result) + 1
    /\ Cardinality(WrittenNames) = Len(written)
    /\ (pc = "done" => Len(written) = K /\ Cardinality(WrittenNames) = K)

C6_Witness ==
    /\ pc = "done"
    /\ K = 3
    /\ result[1] \in SaveRaisesLate
    /\ result[2] = "ok"
    /\ result[3] \in SaveRaisesEarly

\* C7 (as claimed): a run that ends at a violated start-up precondition has
\* created no output directory, no intermediate unit file and no artifact.
C7_NoPartialOutputOnExit ==
    pc = "sys_exit" =>
        /\ outDir # "created"
        /\ mathml_txt = <<>>
        /\ written = <<>>

\* C8 (as claimed): wherever get_main_window returned None (at start-up, in
\* apply_preferences, in save_as_eps) the run is not aborted by an unhandled
\* error.
C8_WindowNotFoundRecoverable ==
    (exc \in {"main_win_none", "save_no_window"} \/ pref_called = "pref_no_window")
        => pc # "unhandled"

\* C9 (as claimed): a unit in which the main window was not found, the save
\* dialog timed out, the preference menu invocation failed or the paste
\* failed has had a popup-dismissal attempt and a placeholder artifact.
C9_EveryListedFailureGetsPlaceholder ==
    (/\ UnitOver
     /\ \/ exc \in {"paste_raises", "save_no_window", "save_dlg_timeout"}
        \/ pref_called \in {"pref_menu_raises", "pref_no_window"})
    => /\ dismiss_calls = 1
       /\ \E j \in WritesOf(i) : written[j].name[3] = "_failed.eps"

\* C9 (amended): an exception that escapes the happy path of a unit is caught
\* at the unit boundary (never aborting the run), gets exactly one
\* popup-dismissal attempt and exactly one artifact, the placeholder, for the
\* unit, and the loop goes on; a failed preference menu invocation or a missing
\* window inside apply_preferences is absorbed there and by itself causes
\* neither a dismissal attempt nor a placeholder.
C9_EscapedFailureGetsPlaceholder ==
    /\ (exc \in UnitExceptions => pc \in {"except", "placeholder", "loop", "done"})
    /\ (pc = "placeholder" => exc \in UnitExceptions /\ dismiss_calls = 1)
    /\ (UnitOver /\ exc \in UnitExceptions) =>
          /\ dismiss_calls = 1
          /\ result[i] = exc
          /\ Cardinality(WritesOf(i)) = 1
          /\ \A j \in WritesOf(i) :
                /\ j = Len(written)
                /\ written[j].name = FailedEpsName(eqn_counter - 1)
    /\ (UnitOver /\ exc = "none") =>
          /\ dismiss_calls = 0
          /\ result[i] = "ok"
          /\ \A j \in WritesOf(i) : written[j].name[3] = ".eps"

C9_Witness ==
    /\ pc = "loop"
    /\ pref_called = "pref_menu_raises"
    /\ exc = "save_dlg_timeout"
    /\ dismiss_calls = 1
    /\ written[Len(written)].name = FailedEpsName(1)

\* C10: once the lookup for a unit found no entry for its prospective
\* filename, apply_preferences is never invoked for it, the warning is
\* logged, the unit goes on to save (and close), the run is not aborted, and
\* the unit fails only if save itself raises; with an empty mapping this holds
\* of every unit.
NoEntry == eps_filename # NoName /\ eps_filename \notin DOMAIN eps_pref_map
C10_NoEntryNoPreference ==
    /\ NoEntry =>
          /\ pref_called = "not_called"
          /\ warned
          /\ pc \in {"save", "close", "except", "placeholder", "loop", "done"}
          /\ exc \in {"none"} \cup SaveRaisesEarly \cup SaveRaisesLate
          /\ (UnitOver /\ exc = "none") =>
                /\ result[i] = "ok"
                /\ \E j \in DOMAIN written : written[j] = [unit |-> i, name |-> eps_filename]
    /\ (eps_pref_map = EmptyMap /\ i >= 1) =>
          /\ pc # "apply_pref"
          /\ pref_called = "not_called"

C10_Witness ==
    /\ pc = "done"
    /\ eps_pref_map = EmptyMap
    /\ result = <<"ok", "ok">>
    /\ NoEntry
    /\ warned

\* The tab-delimited fields of the j-th report line (its line break apart).
Fields(j) == Split(SubSeq(report[j], 1, Len(report[j]) - 1))
TwoFields(j) == Len(Fields(j)) >= 2
\* C11 (as claimed): the mapping returned holds, for every report line with at
\* least two tab-delimited fields, the line's first column mapped to its second
\* (the last such line deciding a repeated first column), and holds no entry
\* that does not come from such a line: lines with fewer fields add nothing.
C11_FirstColumnToSecond ==
    pc = "loader_done" =>
        /\ \A j \in DOMAIN report :
              (/\ TwoFields(j)
               /\ \A l \in DOMAIN report :
                     (l > j /\ TwoFields(l)) => Strip(Fields(l)[1]) # Strip(Fields(j)[1]))
              => /\ Strip(Fields(j)[1]) \in DOMAIN mapping
                 /\ mapping[Strip(Fields(j)[1])] = Strip(Fields(j)[2])
        /\ \A k \in DOMAIN mapping :
              \E j \in DOMAIN report :
                 /\ TwoFields(j)
                 /\ Strip(Fields(j)[1]) = k
                 /\ Strip(Fields(j)[2]) = mapping[k]

\* The title of window j holds one of the keywords, whatever its case.
TitleMatches(j) ==
    \E kw \in Keywords :
       \E k \in 1..Len(all_windows[j].title) :
          /\ k + Len(kw) - 1 <= Len(all_windows[j].title)
          /\ \A d \in 1..Len(kw) :
                all_windows[j].title[k + d - 1] \in {kw[d], UpperCase[CHOOSE u \in DOMAIN LowerCase : LowerCase[u] = kw[d]]}
\* Focus plus escape on window j goes through.
AttemptSucceeds(j) ==
    TitleMatches(j) /\ all_windows[j].focus = "ok" /\ all_windows[j].keys = "ok"
\* C12: dismiss_error_popup never raises; it gives focus or input only to
\* windows whose title holds a keyword; when it returns True, the window that
\* got the escape is the first one whose attempt succeeds, every matching
\* window before it was tried and no window after it was touched; it returns
\* False when no window matches or every attempt fails, and (the windows
\* having been enumerated) only then, every matching window having been tried.
C12_DismissPopup ==
    /\ pc \in {"dismiss_call", "dismiss_loop", "dismiss_done", "dismiss_caught"}
    /\ \A j \in attempted \cup esc_sent : TitleMatches(j)
    /\ (pc \in {"dismiss_done", "dismiss_caught"}) => ret \in {"True", "False"}
    /\ (ret = "True") =>
          \E j \in DOMAIN all_windows :
             /\ AttemptSucceeds(j)
             /\ \A l \in 1..(j - 1) : ~AttemptSucceeds(l)
             /\ esc_sent = {j}
             /\ attempted = {l \in 1..j : TitleMatches(l)}
    /\ (pc \in {"dismiss_done", "dismiss_caught"}
          /\ \A j \in DOMAIN all_windows : ~AttemptSucceeds(j)) => ret = "False"
    /\ (pc = "dismiss_done" /\ ret = "False") =>
          /\ \A j \in DOMAIN all_windows : ~AttemptSucceeds(j)
          /\ attempted = {l \in DOMAIN all_windows : TitleMatches(l)}
          /\ esc_sent = {}

\* "Notes" is passed over, "Error" is tried and fails, "SAVE AS" is dismissed.
C12_Witness ==
    /\ pc = "dismiss_done"
    /\ ret = "True"
    /\ Len(all_windows) = 2
    /\ all_windows[1].title = <<"E", "r", "r", "o", "r">>
    /\ all_windows[1].focus = "raises"
    /\ all_windows[2].title = <<"S", "A", "V", "E", " ", "A", "S">>
    /\ attempted = {1, 2}
    /\ esc_sent = {2}

\* Positions of the run before connect_or_start_mathtype has returned.
BeforeAcquire ==
    {"makedirs", "import", "check_xml", "check_exe", "extract", "write_txt",
     "read_prefs", "connect", "sys_exit"}
\* Positions of the run inside the loop over the lines.
InLoop == {"loop", "paste", "lookup", "apply_pref", "save", "close", "except",
           "placeholder", "done"}
\* C13: the application is acquired once, before the first unit is begun,
\* and never again, however many units fail.
C13_AcquiredOnce ==
    /\ acquisitions \in {0, 1}
    /\ (pc \in BeforeAcquire => acquisitions = 0 /\ i = 0 /\ processed = <<>>)
    /\ (pc \in InLoop \cup {"main_win"} => acquisitions = 1)
    /\ (i >= 1 => acquisitions = 1)

C13_Witness ==
    /\ pc = "done"
    /\ acquisitions = 1
    /\ Len(result) = 3
    /\ \A u \in 1..3 : result[u] # "ok"

\* C14: an exception of the happy path takes the unit to the handler, where
\* dismiss_error_popup is called exactly once; whatever it returned, the next
\* step writes the placeholder named by the counter and advances the counter;
\* after its failure the unit never comes back to paste, lookup,
\* apply_preferences or save: the only way on is the next line or the end.
C14_DismissOnceThenPlaceholderNoRetry ==
    /\ [](pc = "placeholder" =>
            /\ exc \in UnitExceptions
            /\ dismiss_calls = 1
            /\ dismissed \in {"True", "False"})
    /\ []((UnitOver /\ exc \in UnitExceptions) =>
            /\ dismiss_calls = 1
            /\ Len(written) >= 1
            /\ written[Len(written)] = [unit |-> i, name |-> FailedEpsName(eqn_counter - 1)])
    /\ [][(exc = "none" /\ exc' \in UnitExceptions) =>
            pc' = "except" /\ dismiss_calls' = 0 /\ i' = i]_vars
    /\ [][pc = "except" =>
            pc' = "placeholder" /\ dismiss_calls' = dismiss_calls + 1 /\ i' = i]_vars
    /\ [][pc = "placeholder" =>
            (/\ pc' = "loop"
             /\ written' = Append(written, [unit |-> i, name |-> FailedEpsName(eqn_counter)])
             /\ eqn_counter' = eqn_counter + 1
             /\ i' = i)]_vars
    /\ [][(exc \in UnitExceptions) =>
            (pc' \in {"placeholder", "loop", "done"}
                \/ (pc = "loop" /\ i' = i + 1 /\ exc' = "none"))]_vars

\* The first line failed and got its placeholder; the second one failed too,
\* nothing was found to dismiss, and its placeholder is about to be written.
C14_Witness ==
    /\ pc = "placeholder"
    /\ i = 2
    /\ dismissed = "False"
    /\ dismiss_calls = 1
    /\ result = <<"paste_raises">>
    /\ written = <<[unit |-> 1, name |-> FailedEpsName(1)]>>
    /\ Len(processed) = 2

\* Positions at which the next step is a call of paste_mathml_to_mathtype,
\* apply_preferences, save_as_eps, close_current_window or dismiss_error_popup.
InCallee == {"paste", "apply_pref", "save", "close", "except"}
\* C15 (as claimed): the counter is changed by the loop of
\* process_mathml_blocks_from_file alone: no call of paste, apply_preferences,
\* save_as_eps, close_current_window or dismiss_error_popup changes it,
\* whether the call returns or raises.
C15_CounterOnlyByOrchestrator ==
    [][(pc \in InCallee) => eqn_counter' = eqn_counter]_vars

\* C16: when menu_select raised inside apply_preferences, or the main window
\* was not found there, a warning is logged, the call returns and the unit goes
\* on to save_as_eps with nothing written and no exception pending; from then
\* on the unit fails only if save_as_eps itself raises, and when save succeeds
\* the unit's one artifact is the real file, with no dismissal attempt.
C16_PreferenceFailureNonFatal ==
    /\ [](pref_called \in PrefWarns =>
            /\ pref_called \in warnings
            /\ pc \in {"save", "close", "except", "placeholder", "loop", "done"}
            /\ exc \in {"none"} \cup SaveRaisesEarly \cup SaveRaisesLate
            /\ (exc = "none" => dismiss_calls = 0)
            /\ (UnitOver /\ exc = "none") =>
                  /\ result[i] = "ok"
                  /\ WritesOf(i) = {Len(written)}
                  /\ written[Len(written)].name = eps_filename)
    /\ [][(pc = "apply_pref" /\ pref_called' \in PrefWarns) =>
            (pc' = "save" /\ exc' = "none" /\ written' = written
                /\ result' = result /\ eqn_counter' = eqn_counter)]_vars

\* The preference menu failed for the first line, which was saved all the same.
C16_Witness ==
    /\ pc = "loop"
    /\ i = 1
    /\ pref_called = "pref_menu_raises"
    /\ warnings = {"pref_menu_raises"}
    /\ result = <<"ok">>
    /\ written = <<[unit |-> 1, name |-> EpsName(1)]>>
    /\ dismiss_calls = 0

\* Line u has written its real artifact.
SavedReal(u) == \E j \in WritesOf(u) : written[j].name[3] = ".eps"
\* C17: close_current_window after a successful save changes neither the
\* counter nor the files and raises nothing, its own failure being logged; a
\* line whose real artifact was written has that file as its only artifact,
\* never has a dismissal attempt, ends as a success, and has advanced the
\* counter once, from the index in the file's name to the next one.
C17_CloseFailureNotPropagated ==
    /\ [][pc = "close" =>
            (/\ pc' = "loop"
             /\ exc' = "none"
             /\ dismiss_calls' = 0
             /\ eqn_counter' = eqn_counter
             /\ written' = written
             /\ result' = Append(result, "ok"))]_vars
    /\ []("close_raises" \in warnings => UnitOver /\ exc = "none" /\ result[i] = "ok")
    /\ [](\A u \in 1..i : SavedReal(u) =>
            /\ Cardinality(WritesOf(u)) = 1
            /\ (u <= Len(result) => result[u] = "ok")
            /\ (u = i =>
                  /\ pc \in {"close", "loop", "done"}
                  /\ exc = "none"
                  /\ dismiss_calls = 0
                  /\ eps_filename = written[Len(written)].name
                  /\ eqn_counter = eps_filename[2] + 1))

\* The first line was saved as Eqn1.eps and closing its window failed.
C17_Witness ==
    /\ pc = "loop"
    /\ i = 1
    /\ warnings = {"close_raises"}
    /\ result = <<"ok">>
    /\ written = <<[unit |-> 1, name |-> EpsName(1)]>>
    /\ eqn_counter = 2
    /\ dismiss_calls = 0

\* C18: from the lookup until save_as_eps names its file the counter does not
\* change, so the name the lookup used as key is the name save writes; and
\* apply_preferences was called for a line only if the report maps that very
\* name to a non-empty preference.
C18_LookupKeyIsSavedName ==
    /\ [](pc \in {"apply_pref", "save"} => eps_filename = EpsName(eqn_counter))
    /\ [][(pc = "save" /\ written' # written) =>
            written' = Append(written, [unit |-> i, name |-> eps_filename])]_vars
    /\ []((i >= 1 /\ SavedReal(i)) =>
            /\ written[Len(written)] = [unit |-> i, name |-> eps_filename]
            /\ (pref_called # "not_called" =>
                  /\ eps_filename \in DOMAIN eps_pref_map
                  /\ Truthy(eps_pref_map[eps_filename]))
            /\ (pref_called = "not_called" =>
                  ~Truthy(PrefGet(eps_pref_map, eps_filename))))

\* The second line is looked up and saved as Eqn3.eps, the first one having
\* taken two indices; the report's entry is for Eqn1.eps and is not applied.
C18_Witness ==
    /\ pc = "close"
    /\ i = 2
    /\ result = <<"save_click_raises">>
    /\ eps_filename = EpsName(3)
    /\ written[Len(written)] = [unit |-> 2, name |-> EpsName(3)]
    /\ EpsName(1) \in DOMAIN eps_pref_map
    /\ pref_called = "not_called"

\* The b-th extracted block as one line of text.
Normalised(b) == RemoveNewlines(Strip(mathml_blocks[b]))
\* mathml.txt holds one line per extracted block, in the order of extraction.
FileComplete ==
    /\ Len(mathml_txt) = K
    /\ \A b \in 1..K : mathml_txt[b] = Normalised(b) \o <<NL>>
\* C19: mathml.txt is complete, one line per extracted block in extraction
\* order, from before connect_or_start_mathtype is called, hence before any
\* line is processed; the lines are then taken in that order, one at a time,
\* the next one only when the one before is finished; and a run that comes to
\* its end has processed as many units as were extracted.
C19_FileWrittenBeforeProcessing ==
    /\ [](pc \in {"read_prefs", "connect", "main_win", "unhandled"} \cup InLoop => FileComplete)
    /\ [](pc \in {"read_prefs", "connect"} => acquisitions = 0 /\ i = 0 /\ processed = <<>>)
    /\ []((acquisitions >= 1 \/ i >= 1) => FileComplete)
    /\ [](/\ Len(processed) = i
          /\ i <= K
          /\ \A u \in 1..i : processed[u] = Normalised(u))
    /\ [](pc \in InLoop => Len(result) = IF pc \in {"loop", "done"} THEN i ELSE i - 1)
    /\ [][i' = i \/ (pc = "loop" /\ Len(result) = i /\ i' = i + 1)]_vars
    /\ [](pc = "done" => i = K /\ Len(processed) = K /\ Len(result) = K)

\* Three blocks, the second and third holding line breaks, were written as
\* three lines and processed in order, the second one failing.
C19_Witness ==
    /\ pc = "done"
    /\ K = 3
    /\ Len(mathml_txt) = 3
    /\ mathml_txt[2] # mathml_blocks[2] \o <<NL>>
    /\ processed = <<Normalised(1), Normalised(2), Normalised(3)>>
    /\ result[1] = "ok"
    /\ result[2] = "paste_raises"
    /\ result[3] = "ok"

====
